---- MODULE Spec2Model ----
(***************************************************************************)
(* Session lifecycle and persistence of the chat backend:                  *)
(*   src/src/db/models.py            User, ChatSession (version_id_col)    *)
(*   src/src/db/service.py           ChatSessionDBService                  *)
(*   src/src/services/chat_service.py SmartGeminiBackend.chat              *)
(*                                                                         *)
(* The store is a transactional database.  A transaction reads committed   *)
(* rows; what it writes (the ORM flush with its version check, the token   *)
(* statement, an INSERT) becomes visible at its commit, and a conflict     *)
(* with a row committed meanwhile makes the transaction fail and leave     *)
(* nothing behind.                                                         *)
(*                                                                         *)
(* Spec      concurrent chat() calls (Procs), each with its two            *)
(*           transactions around the collaborator call.                    *)
(* RepoSpec  direct clients of ChatSessionDBService (Txs), as the tests    *)
(*           under src/tests/db use it.                                    *)
(* HistSpec  phase 1 of chat() on a session whose stored history is any    *)
(*           list of turns update_session can have written.                *)
(* RetrySpec chat() calls of one user on the stored sessions, enough of    *)
(*           them for a call to lose all three attempts.                   *)
(* DecodeSpec chat() over a session whose history_json does not decode.    *)
(* GenSpec   generate_content() next to the stored sessions.               *)
(* AgentSpec the tool loop of process_chat_turn (src/src/core/agent.py).   *)
(*                                                                         *)
(* prev is a history variable: every step leaves in it the state it        *)
(* started from, so that what a step does is a predicate of the state it   *)
(* leads to (Stepped => ...).                                              *)
(***************************************************************************)
EXTENDS Integers, Sequences, FiniteSets, TLC

\* ---------------------------------------------------------------- bounds
NumProcs == 2
MaxCalls == 3
MaxTicks == 1
MaxUsage == 1
NumTxs == 2
MaxTxRuns == 3
MaxTxUpdates == 2
MaxStoredLen == 5
MaxRetryCalls == 4
\* configuration read from env_settings; the source sets no value for them
MAX_TOKENS_PER_CHAT_SESSION == 1
MAX_HISTORY_LENGTH == 3

\* ------------------------------------------------------- program constants
TIMEOUT_SECONDS == 300
MaxAttempts == 3

Procs == 1..NumProcs
Txs == 1..NumTxs
\* the empty string: a str that python treats as false, like None
EmptyName == ""
Users == {"A", EmptyName}
\* session_id None (or the empty string)
NoSession == 0
\* an identifier no session ever has
MissingId == 99
\* an identifier a caller of create_session supplies
SuppliedId == 50
TokenUsages == 0..MaxUsage

\* prev is a history variable: the state the last step started from
VARIABLES users, sessions, now, ticks, calls, pc, call, tx, prev

vars == <<users, sessions, now, ticks, calls, pc, call, tx, prev>>

\* ------------------------------------------------------------- histories
Turn(role, by) == [role |-> role, by |-> by]

\* json.dumps of a list of dicts: a valid document holding the items
JsonDumps(history_data) == [valid |-> TRUE, items |-> history_data]

\* a truncation that keeps what the slice begins with
KeepLeadingNonUser(h) == h

\* a slice of one entry more than asked for
LastNPlusOne(h, n) ==
    IF n = 0 \/ n + 1 >= Len(h) THEN h ELSE SubSeq(h, Len(h) - n, Len(h))

\* history[-n:]; python's history[-0:] is the whole list
LastN(h, n) == IF n = 0 \/ n >= Len(h) THEN h ELSE SubSeq(h, Len(h) - n + 1, Len(h))

RECURSIVE DropLeadingNonUser(_)
DropLeadingNonUser(h) ==
    IF h = <<>> THEN <<>>
    ELSE IF Head(h).role = "user" THEN h
    ELSE DropLeadingNonUser(Tail(h))

StripHistoryLength(history) ==
    IF Len(history) <= MAX_HISTORY_LENGTH THEN history
    ELSE DropLeadingNonUser(LastN(history, MAX_HISTORY_LENGTH))

\* a loader that takes whatever the document holds
LoadHistoryAnyDocument(row) == StripHistoryLength(row.history_json.items)

\* json.loads, then the truncation; an undecodable document gives []
LoadHistory(row) ==
    IF row.history_json.valid THEN StripHistoryLength(row.history_json.items)
    ELSE <<>>

\* every item the collaborator returns has model_dump (or is a dict): kept in order
SerializeHistory(history_list) ==
    IF history_list = <<>> THEN <<>>
    ELSE [i \in 1..Len(history_list) |->
            Turn(history_list[i].role, history_list[i].by)]

\* ------------------------------------------------------------ repository
\* the in-memory ChatSession object of a stored row
Object(S, sid) == [session_id |-> sid] @@ S[sid]

\* a lookup that answers None for an identifier no session has
GetSessionMissingIsNone(S, session_id, user_name) ==
    IF session_id # NoSession
    THEN IF session_id \in DOMAIN S /\ user_name # EmptyName
            /\ S[session_id].user_name # user_name
         THEN [kind |-> "forbidden", ids |-> {}]
         ELSE IF session_id \in DOMAIN S
         THEN [kind |-> "found", ids |-> {session_id}]
         ELSE [kind |-> "none", ids |-> {}]
    ELSE IF user_name # EmptyName
    THEN LET mine == {s \in DOMAIN S : S[s].user_name = user_name}
             latest == {s \in mine :
                          \A o \in mine : S[o].last_active <= S[s].last_active}
         IN IF mine = {} THEN [kind |-> "none", ids |-> {}]
            ELSE [kind |-> "found", ids |-> latest]
    ELSE [kind |-> "none", ids |-> {}]

\* get_session: found (ids: the rows the query may return), none, or the
\* HTTPException raised
GetSession(S, session_id, user_name) ==
    IF session_id # NoSession
    THEN IF session_id \in DOMAIN S /\ user_name # EmptyName
            /\ S[session_id].user_name # user_name
         THEN [kind |-> "forbidden", ids |-> {}]
         ELSE IF session_id \in DOMAIN S
         THEN [kind |-> "found", ids |-> {session_id}]
         ELSE [kind |-> "notfound", ids |-> {}]
    ELSE IF user_name # EmptyName
    THEN LET mine == {s \in DOMAIN S : S[s].user_name = user_name}
             latest == {s \in mine :
                          \A o \in mine : S[o].last_active <= S[s].last_active}
         IN IF mine = {} THEN [kind |-> "none", ids |-> {}]
            ELSE [kind |-> "found", ids |-> latest]
    ELSE [kind |-> "none", ids |-> {}]

\* uuid.uuid4(): an identifier no stored session has
NewSessionId(S) == Cardinality(DOMAIN S) + 1

\* the row create_session inserts (version: the column default)
NewRow(user_name, t) ==
    [user_name |-> user_name, history_json |-> JsonDumps(<<>>),
     last_active |-> t, token_count |-> 0, version |-> 1]

SetStmt(n) == [op |-> "set", n |-> n]
AddStmt(n) == [op |-> "add", n |-> n]

\* an update_session that leaves last_active as it was loaded
UpdateSessionKeepsLastActive(obj, history_data, token_usage, reset_token_count, t) ==
    [obj |-> [obj EXCEPT !.history_json = JsonDumps(history_data),
                         !.token_count = IF reset_token_count THEN token_usage
                                         ELSE obj.token_count],
     stmt |-> IF reset_token_count THEN SetStmt(token_usage)
              ELSE AddStmt(token_usage)]

UpdateSessionNeverResets(obj, history_data, token_usage, reset_token_count, t) ==
    [obj |-> [obj EXCEPT !.history_json = JsonDumps(history_data),
                         !.last_active = t],
     stmt |-> AddStmt(token_usage)]

\* update_session on the in-memory object: the object as changed, and the
\* token statement handed to the store
UpdateSession(obj, history_data, token_usage, reset_token_count, t) ==
    [obj |-> [obj EXCEPT !.history_json = JsonDumps(history_data),
                         !.last_active = t,
                         !.token_count = IF reset_token_count THEN token_usage
                                         ELSE obj.token_count],
     stmt |-> IF reset_token_count THEN SetStmt(token_usage)
              ELSE AddStmt(token_usage)]

\* a reset that is applied like an increment
ApplyStmtSetAccumulates(stored_count, obj_count, stmt) == stored_count + stmt.n

\* an increment that is applied like a reset
ApplyStmtAddOverwrites(stored_count, obj_count, stmt) == stmt.n

\* the store evaluates a token statement on the stored value
ApplyStmtReadModifyWrite(stored_count, obj_count, stmt) ==
    IF stmt.op = "set" THEN stmt.n ELSE obj_count + stmt.n

ApplyStmt(stored_count, obj_count, stmt) ==
    IF stmt.op = "set" THEN stmt.n ELSE stored_count + stmt.n

RECURSIVE ApplyStmts(_, _, _)
ApplyStmts(stored_count, obj_count, stmts) ==
    IF stmts = <<>> THEN stored_count
    ELSE ApplyStmts(ApplyStmt(stored_count, obj_count, Head(stmts)),
                    obj_count, Tail(stmts))

\* version_id_col: the UPDATE of a dirty object carries WHERE version = <loaded>
VersionMatchesAlways(stored, obj) == TRUE

VersionMatches(stored, obj) == stored.version = obj.version

\* a flush whose UPDATE does not count the version up
FlushedRowKeepsVersion(stored, obj, stmts) ==
    [stored EXCEPT !.history_json = obj.history_json,
                   !.last_active = obj.last_active,
                   !.token_count = ApplyStmts(stored.token_count,
                                              obj.token_count, stmts)]

\* the row after the transaction's flushes and token statements
FlushedRow(stored, obj, stmts) ==
    [stored EXCEPT !.history_json = obj.history_json,
                   !.last_active = obj.last_active,
                   !.version = stored.version + Len(stmts),
                   !.token_count = ApplyStmts(stored.token_count,
                                              obj.token_count, stmts)]

\* ---------------------------------------------------------- transactions
\* what an open AsyncSession holds: the object it works on (created by
\* create_session or loaded by get_session), the row it started from, and the
\* token statements it executed
NoFin == [created |-> FALSE, newUser |-> FALSE, user |-> EmptyName,
          base |-> NewRow(EmptyName, 0),
          obj |-> [session_id |-> NoSession] @@ NewRow(EmptyName, 0),
          stmts |-> <<>>]

\* get_or_create_user alone: the user row is selected, and added when the
\* select found none
UserOnly(U, user_name) ==
    [NoFin EXCEPT !.newUser = user_name \notin U, !.user = user_name]

\* create_session: get_or_create_user, then the INSERT (session_id NoSession:
\* the identifier is a new uuid)
Created(U, user_name, session_id, t) ==
    [created |-> TRUE, newUser |-> UserOnly(U, user_name).newUser,
     user |-> user_name,
     base |-> NewRow(user_name, t),
     obj |-> [session_id |-> session_id] @@ NewRow(user_name, t),
     stmts |-> <<>>]

\* the AsyncSession holds a ChatSession object
HoldsSession(fin) == fin.created \/ fin.obj.session_id # NoSession

\* get_session returned the stored row sid
Loaded(S, sid) ==
    [created |-> FALSE, newUser |-> FALSE, user |-> S[sid].user_name,
     base |-> S[sid], obj |-> Object(S, sid), stmts |-> <<>>]

Updated(fin, history_data, token_usage, reset_token_count, t) ==
    LET u == UpdateSession(fin.obj, history_data, token_usage,
                           reset_token_count, t)
    IN [fin EXCEPT !.obj = u.obj, !.stmts = Append(fin.stmts, u.stmt)]

\* a transaction that commits rows although a user of that name is stored
WriteConflictNoUserKey(U, S, fin) ==
    \/ fin.created /\ fin.obj.session_id \in DOMAIN S
    \/ /\ ~fin.created
       /\ fin.stmts # <<>>
       /\ ~VersionMatches(S[fin.obj.session_id], fin.obj)

\* the transaction cannot commit: the user row or the session row it inserts
\* was committed by another transaction (IntegrityError), or the version of
\* the row it updates is no longer the one it loaded (StaleDataError)
WriteConflict(U, S, fin) ==
    \/ fin.newUser /\ fin.user \in U
    \/ fin.created /\ fin.obj.session_id \in DOMAIN S
    \/ /\ ~fin.created
       /\ fin.stmts # <<>>
       /\ ~VersionMatches(S[fin.obj.session_id], fin.obj)

\* a create_session that generates an identifier whatever it is given
WrittenIdIgnoresSupplied(S, fin) ==
    IF fin.created THEN NewSessionId(S) ELSE fin.obj.session_id

\* the session the transaction writes
WrittenId(S, fin) ==
    IF fin.created /\ fin.obj.session_id = NoSession THEN NewSessionId(S)
    ELSE fin.obj.session_id

\* a commit whose new session takes the place of its owner's older ones
CommittedReplacesOlder(S, fin) ==
    LET id == WrittenId(S, fin)
        stored == IF fin.created THEN fin.base ELSE S[id]
        row == FlushedRow(stored, fin.obj, fin.stmts)
        keep == {s \in DOMAIN S : S[s].user_name # fin.user}
    IN IF fin.created
       THEN [s \in keep \cup {id} |-> IF s = id THEN row ELSE S[s]]
       ELSE IF fin.stmts # <<>> THEN [S EXCEPT ![id] = row]
       ELSE S

\* the stored rows after the commit: the created row is inserted, the row
\* update_session was called on is updated, an object that was only loaded
\* is not flushed
Committed(S, fin) ==
    LET id == WrittenId(S, fin)
        stored == IF fin.created THEN fin.base ELSE S[id]
        row == FlushedRow(stored, fin.obj, fin.stmts)
    IN IF fin.created THEN S @@ (id :> row)
       ELSE IF fin.stmts # <<>> THEN [S EXCEPT ![id] = row]
       ELSE S

\* ------------------------------------------------------------------ chat
\* db_session_data = None
NoData == [some |-> FALSE, session_id |-> NoSession, token_count |-> 0, reset |-> FALSE]

\* an expiry test that counts the age of exactly the timeout as expired
IsExpiredAtTimeout(row, t) == (t - row.last_active) >= TIMEOUT_SECONDS

IsExpired(row, t) == (t - row.last_active) > TIMEOUT_SECONDS

TokenLimitExceededStrict(row) ==
    row.token_count # 0 /\ row.token_count > MAX_TOKENS_PER_CHAT_SESSION

\* _check_token_limit raises
TokenLimitExceeded(row) ==
    row.token_count # 0 /\ row.token_count >= MAX_TOKENS_PER_CHAT_SESSION

\* a phase 1 that applies the token check to a session it is about to reset
LoadContextChecksReset(S, session_id, found, t) ==
    LET expired == found # NoSession /\ IsExpired(S[found], t)
        initial == IF expired /\ session_id = NoSession THEN NoSession ELSE found
        data == IF found = NoSession THEN NoData
                ELSE IF expired
                THEN IF session_id = NoSession THEN NoData
                     ELSE [some |-> TRUE, session_id |-> found,
                           token_count |-> 0, reset |-> TRUE]
                ELSE [some |-> TRUE, session_id |-> found,
                      token_count |-> S[found].token_count, reset |-> FALSE]
        history == IF found # NoSession /\ ~expired THEN LoadHistory(S[found])
                   ELSE <<>>
    IN [initial |-> initial, history |-> history, data |-> data,
        quota |-> initial # NoSession /\ TokenLimitExceeded(S[initial])]

LoadContextKeepsExpired(S, session_id, found, t) ==
    LET expired == found # NoSession /\ IsExpired(S[found], t)
        data == IF found = NoSession THEN NoData
                ELSE IF expired
                THEN [some |-> TRUE, session_id |-> found,
                      token_count |-> 0, reset |-> TRUE]
                ELSE [some |-> TRUE, session_id |-> found,
                      token_count |-> S[found].token_count, reset |-> FALSE]
        history == IF found # NoSession /\ ~expired THEN LoadHistory(S[found])
                   ELSE <<>>
    IN [initial |-> found, history |-> history, data |-> data,
        quota |-> found # NoSession /\ ~(data.some /\ data.reset)
                  /\ TokenLimitExceeded(S[found])]

\* phase 1 after get_session returned found (NoSession: it returned None):
\* initial_db_session, history, db_session_data, and whether the token check raises
LoadContext(S, session_id, found, t) ==
    LET expired == found # NoSession /\ IsExpired(S[found], t)
        initial == IF expired /\ session_id = NoSession THEN NoSession ELSE found
        data == IF found = NoSession THEN NoData
                ELSE IF expired
                THEN IF session_id = NoSession THEN NoData
                     ELSE [some |-> TRUE, session_id |-> found,
                           token_count |-> 0, reset |-> TRUE]
                ELSE [some |-> TRUE, session_id |-> found,
                      token_count |-> S[found].token_count, reset |-> FALSE]
        history == IF found # NoSession /\ ~expired THEN LoadHistory(S[found])
                   ELSE <<>>
    IN [initial |-> initial, history |-> history, data |-> data,
        quota |-> initial # NoSession /\ ~(data.some /\ data.reset)
                  /\ TokenLimitExceeded(S[initial])]

\* a chat() call's locals; llm and wrote count the collaborator invocations
\* and the commits of the call; prompt is len(prompt) of a generate_content call
NoCall == [user |-> EmptyName, sid |-> NoSession, attempt |-> 0, prompt |-> 0,
           initial |-> NoSession, history |-> <<>>, data |-> NoData,
           resp |-> <<>>, usage |-> 0, fin |-> NoFin,
           llm |-> 0, wrote |-> 0, result |-> "none", ret |-> NoSession]

Attempt(c, k) ==
    [c EXCEPT !.attempt = k, !.initial = NoSession, !.history = <<>>,
              !.data = NoData, !.resp = <<>>, !.usage = 0, !.fin = NoFin]

Finished(c, result, ret) ==
    [c EXCEPT !.result = result, !.ret = ret, !.attempt = 0,
              !.history = <<>>, !.resp = <<>>, !.usage = 0, !.fin = NoFin,
              !.data = [NoData EXCEPT !.reset = c.data.reset]]

\* a direct client of ChatSessionDBService: its AsyncSession (open: it holds
\* an object), how its last commit or lookup ended, and how many
\* transactions it has ended
NoTx == [open |-> FALSE, fin |-> NoFin, result |-> "none", runs |-> 0]

\* the state a step starts from
Before ==
    [step |-> TRUE, users |-> users, sessions |-> sessions, now |-> now,
     ticks |-> ticks, calls |-> calls, pc |-> pc, call |-> call, tx |-> tx]

\* no step has been taken
NoStep == [Before EXCEPT !.step = FALSE]

\* every step leaves in prev the state it started from
Record == prev' = Before

Init ==
    /\ users = {}
    /\ sessions = <<>>
    /\ now = 0
    /\ ticks = 0
    /\ calls = 0
    /\ pc = [p \in Procs |-> "idle"]
    /\ call = [p \in Procs |-> NoCall]
    /\ tx = [t \in Txs |-> NoTx]
    /\ prev = NoStep

\* time.time() moves on
Tick(d) ==
    /\ ticks < MaxTicks
    /\ now' = now + d
    /\ ticks' = ticks + 1
    /\ UNCHANGED <<users, sessions, calls, pc, call, tx>>

\* a caller invokes chat(user_name, prompt, session_id)
ChatStart(p, user_name, session_id) ==
    /\ pc[p] \in {"idle", "done"}
    /\ calls' = calls + 1
    /\ pc' = [pc EXCEPT ![p] = "load"]
    /\ call' = [call EXCEPT ![p] =
                  [NoCall EXCEPT !.user = user_name, !.sid = session_id,
                                 !.attempt = 1]]
    /\ UNCHANGED <<users, sessions, now, ticks, tx>>

\* a phase 1 that clears an expired pinned session as soon as it finds it
ChatLoadResetsExpired(p) ==
    /\ pc[p] = "load"
    /\ LET c == call[p]
           g == GetSession(sessions, c.sid, c.user)
       IN IF g.kind \in {"forbidden", "notfound"}
          THEN /\ pc' = [pc EXCEPT ![p] = "done"]
               /\ call' = [call EXCEPT ![p] = Finished(c, g.kind, NoSession)]
               /\ sessions' = sessions
          ELSE \E found \in (IF g.kind = "found" THEN g.ids ELSE {NoSession}) :
                 LET ctx == LoadContext(sessions, c.sid, found, now)
                     c1 == [c EXCEPT !.initial = ctx.initial,
                                     !.history = ctx.history,
                                     !.data = ctx.data]
                 IN /\ sessions' = IF ctx.data.reset
                                   THEN [sessions EXCEPT
                                           ![found].history_json = JsonDumps(<<>>),
                                           ![found].token_count = 0]
                                   ELSE sessions
                    /\ IF ctx.quota
                       THEN /\ pc' = [pc EXCEPT ![p] = "done"]
                            /\ call' = [call EXCEPT ![p] = Finished(c1, "quota", NoSession)]
                       ELSE /\ pc' = [pc EXCEPT ![p] = "llm"]
                            /\ call' = [call EXCEPT ![p] = c1]
    /\ UNCHANGED <<users, now, ticks, calls, tx>>

\* a phase 1 whose 403 and 404 errors are retried like write conflicts
ChatLoadRetriesErrors(p) ==
    /\ pc[p] = "load"
    /\ LET c == call[p]
           g == GetSession(sessions, c.sid, c.user)
       IN IF g.kind \in {"forbidden", "notfound"}
          THEN IF c.attempt < MaxAttempts
               THEN /\ pc' = [pc EXCEPT ![p] = "load"]
                    /\ call' = [call EXCEPT ![p] = Attempt(c, c.attempt + 1)]
               ELSE /\ pc' = [pc EXCEPT ![p] = "done"]
                    /\ call' = [call EXCEPT ![p] = Finished(c, g.kind, NoSession)]
          ELSE \E found \in (IF g.kind = "found" THEN g.ids ELSE {NoSession}) :
                 LET ctx == LoadContext(sessions, c.sid, found, now)
                     c1 == [c EXCEPT !.initial = ctx.initial,
                                     !.history = ctx.history,
                                     !.data = ctx.data]
                 IN IF ctx.quota
                    THEN /\ pc' = [pc EXCEPT ![p] = "done"]
                         /\ call' = [call EXCEPT ![p] = Finished(c1, "quota", NoSession)]
                    ELSE /\ pc' = [pc EXCEPT ![p] = "llm"]
                         /\ call' = [call EXCEPT ![p] = c1]
    /\ UNCHANGED <<users, sessions, now, ticks, calls, tx>>

\* a phase 1 whose transaction on the resolved session stays open
ChatLoadKeepsTransaction(p) ==
    /\ pc[p] = "load"
    /\ LET c == call[p]
           g == GetSession(sessions, c.sid, c.user)
       IN IF g.kind \in {"forbidden", "notfound"}
          THEN /\ pc' = [pc EXCEPT ![p] = "done"]
               /\ call' = [call EXCEPT ![p] = Finished(c, g.kind, NoSession)]
          ELSE \E found \in (IF g.kind = "found" THEN g.ids ELSE {NoSession}) :
                 LET ctx == LoadContext(sessions, c.sid, found, now)
                     c1 == [c EXCEPT !.initial = ctx.initial,
                                     !.history = ctx.history,
                                     !.data = ctx.data,
                                     !.fin = IF found = NoSession THEN NoFin
                                             ELSE Loaded(sessions, found)]
                 IN IF ctx.quota
                    THEN /\ pc' = [pc EXCEPT ![p] = "done"]
                         /\ call' = [call EXCEPT ![p] = Finished(c1, "quota", NoSession)]
                    ELSE /\ pc' = [pc EXCEPT ![p] = "llm"]
                         /\ call' = [call EXCEPT ![p] = c1]
    /\ UNCHANGED <<users, sessions, now, ticks, calls, tx>>

\* phase 1: get_session, expiry, history, token limit
ChatLoad(p) ==
    /\ pc[p] = "load"
    /\ LET c == call[p]
           g == GetSession(sessions, c.sid, c.user)
       IN IF g.kind \in {"forbidden", "notfound"}
          THEN /\ pc' = [pc EXCEPT ![p] = "done"]
               /\ call' = [call EXCEPT ![p] = Finished(c, g.kind, NoSession)]
          ELSE \E found \in (IF g.kind = "found" THEN g.ids ELSE {NoSession}) :
                 LET ctx == LoadContext(sessions, c.sid, found, now)
                     c1 == [c EXCEPT !.initial = ctx.initial,
                                     !.history = ctx.history,
                                     !.data = ctx.data]
                 IN IF ctx.quota
                    THEN /\ pc' = [pc EXCEPT ![p] = "done"]
                         /\ call' = [call EXCEPT ![p] = Finished(c1, "quota", NoSession)]
                    ELSE /\ pc' = [pc EXCEPT ![p] = "llm"]
                         /\ call' = [call EXCEPT ![p] = c1]
    /\ UNCHANGED <<users, sessions, now, ticks, calls, tx>>

\* phase 2: the collaborator answers; its history is the one it was given
\* plus this turn, tokens may be None (usage 0)
ChatLLMReturns(p, token_usage) ==
    /\ pc[p] = "llm"
    /\ pc' = [pc EXCEPT ![p] = "save"]
    /\ call' = [call EXCEPT ![p].resp = call[p].history
                                  \o <<Turn("user", p), Turn("model", p)>>,
                            ![p].usage = token_usage,
                            ![p].llm = call[p].llm + 1]
    /\ UNCHANGED <<users, sessions, now, ticks, calls, tx>>

\* a collaborator failure that is retried like a write conflict
ChatLLMRaisesRetries(p) ==
    /\ pc[p] = "llm"
    /\ IF call[p].attempt < MaxAttempts
       THEN /\ pc' = [pc EXCEPT ![p] = "load"]
            /\ call' = [call EXCEPT ![p] =
                          Attempt([call[p] EXCEPT !.llm = call[p].llm + 1],
                                  call[p].attempt + 1)]
       ELSE /\ pc' = [pc EXCEPT ![p] = "done"]
            /\ call' = [call EXCEPT ![p] =
                          Finished([call[p] EXCEPT !.llm = call[p].llm + 1],
                                   "unavailable", NoSession)]
    /\ UNCHANGED <<users, sessions, now, ticks, calls, tx>>

ChatLLMRaisesTouchesSession(p) ==
    /\ pc[p] = "llm"
    /\ pc' = [pc EXCEPT ![p] = "done"]
    /\ call' = [call EXCEPT ![p] =
                  Finished([call[p] EXCEPT !.llm = call[p].llm + 1],
                           "unavailable", NoSession)]
    /\ sessions' = IF call[p].initial = NoSession THEN sessions
                   ELSE [sessions EXCEPT ![call[p].initial].last_active = now,
                                         ![call[p].initial].version = @ + 1]
    /\ UNCHANGED <<users, now, ticks, calls, tx>>

\* phase 2: the collaborator raises: HTTPException 503
ChatLLMRaises(p) ==
    /\ pc[p] = "llm"
    /\ pc' = [pc EXCEPT ![p] = "done"]
    /\ call' = [call EXCEPT ![p] =
                  Finished([call[p] EXCEPT !.llm = call[p].llm + 1],
                           "unavailable", NoSession)]
    /\ UNCHANGED <<users, sessions, now, ticks, calls, tx>>

\* phase 3 up to the commit: get_session or create_session in a new
\* transaction, then update_session
ChatSave(p) ==
    /\ pc[p] = "save"
    /\ LET c == call[p]
           target == IF c.data.some THEN c.data.session_id ELSE c.sid
           g == GetSession(sessions, target, c.user)
           should_reset == c.data.some /\ c.data.reset
       IN IF target # NoSession /\ g.kind # "found"
          THEN /\ pc' = [pc EXCEPT ![p] = "done"]
               /\ call' = [call EXCEPT ![p] = Finished(c, g.kind, NoSession)]
          ELSE LET begun == IF target = NoSession
                            THEN Created(users, c.user, target, now)
                            ELSE Loaded(sessions, target)
               IN /\ pc' = [pc EXCEPT ![p] = "commit"]
                  /\ call' = [call EXCEPT ![p].fin =
                                Updated(begun, SerializeHistory(c.resp),
                                        c.usage, should_reset, now)]
    /\ UNCHANGED <<users, sessions, now, ticks, calls, tx>>

\* a commit that stores the session without the user row added with it
ChatCommitSkipsUser(p) ==
    /\ pc[p] = "commit"
    /\ ~WriteConflict(users, sessions, call[p].fin)
    /\ LET c == call[p]
       IN /\ sessions' = Committed(sessions, c.fin)
          /\ pc' = [pc EXCEPT ![p] = "done"]
          /\ call' = [call EXCEPT ![p] =
                        Finished([c EXCEPT !.wrote = c.wrote + 1], "ok",
                                 WrittenId(sessions, c.fin))]
    /\ UNCHANGED <<users, now, ticks, calls, tx>>

\* phase 3: commit
ChatCommit(p) ==
    /\ pc[p] = "commit"
    /\ ~WriteConflict(users, sessions, call[p].fin)
    /\ LET c == call[p]
       IN /\ users' = IF c.fin.created THEN users \cup {c.user} ELSE users
          /\ sessions' = Committed(sessions, c.fin)
          /\ pc' = [pc EXCEPT ![p] = "done"]
          /\ call' = [call EXCEPT ![p] =
                        Finished([c EXCEPT !.wrote = c.wrote + 1], "ok",
                                 WrittenId(sessions, c.fin))]
    /\ UNCHANGED <<now, ticks, calls, tx>>

\* a retry whose failed attempt is not rolled back: the created row stays
ChatRetryLeavesRow(p) ==
    /\ pc[p] = "commit"
    /\ WriteConflict(users, sessions, call[p].fin)
    /\ call[p].attempt < MaxAttempts
    /\ pc' = [pc EXCEPT ![p] = "load"]
    /\ call' = [call EXCEPT ![p] = Attempt(call[p], call[p].attempt + 1)]
    /\ sessions' = IF call[p].fin.created THEN Committed(sessions, call[p].fin)
                   ELSE sessions
    /\ UNCHANGED <<users, now, ticks, calls, tx>>

\* a retry that does not count its attempts
ChatRetryUncounted(p) ==
    /\ pc[p] = "commit"
    /\ WriteConflict(users, sessions, call[p].fin)
    /\ pc' = [pc EXCEPT ![p] = "load"]
    /\ call' = [call EXCEPT ![p] = Attempt(call[p], call[p].attempt)]
    /\ UNCHANGED <<users, sessions, now, ticks, calls, tx>>

\* a retry whose failed attempt leaves the session's token_count counted up
ChatRetryKeepsTokens(p) ==
    /\ pc[p] = "commit"
    /\ WriteConflict(users, sessions, call[p].fin)
    /\ call[p].attempt < MaxAttempts
    /\ pc' = [pc EXCEPT ![p] = "load"]
    /\ call' = [call EXCEPT ![p] = Attempt(call[p], call[p].attempt + 1)]
    /\ sessions' = IF call[p].fin.created THEN sessions
                   ELSE [sessions EXCEPT ![call[p].fin.obj.session_id].token_count =
                           @ + call[p].usage + 1]
    /\ UNCHANGED <<users, now, ticks, calls, tx>>

\* a retry that goes back to the collaborator with the history it had
ChatRetryKeepsHistory(p) ==
    /\ pc[p] = "commit"
    /\ WriteConflict(users, sessions, call[p].fin)
    /\ call[p].attempt < MaxAttempts
    /\ pc' = [pc EXCEPT ![p] = "llm"]
    /\ call' = [call EXCEPT ![p].attempt = call[p].attempt + 1,
                            ![p].resp = <<>>, ![p].usage = 0, ![p].fin = NoFin]
    /\ UNCHANGED <<users, sessions, now, ticks, calls, tx>>

\* phase 3: rollback, and tenacity starts the next attempt
ChatRetry(p) ==
    /\ pc[p] = "commit"
    /\ WriteConflict(users, sessions, call[p].fin)
    /\ call[p].attempt < MaxAttempts
    /\ pc' = [pc EXCEPT ![p] = "load"]
    /\ call' = [call EXCEPT ![p] = Attempt(call[p], call[p].attempt + 1)]
    /\ UNCHANGED <<users, sessions, now, ticks, calls, tx>>

\* phase 3: rollback after the last attempt: the error is re-raised
ChatGiveUp(p) ==
    /\ pc[p] = "commit"
    /\ WriteConflict(users, sessions, call[p].fin)
    /\ call[p].attempt >= MaxAttempts
    /\ pc' = [pc EXCEPT ![p] = "done"]
    /\ call' = [call EXCEPT ![p] = Finished(call[p], "conflict", NoSession)]
    /\ UNCHANGED <<users, sessions, now, ticks, calls, tx>>

\* phase 3: commit raises IntegrityError or StaleDataError: the handler rolls
\* back and re-raises, and tenacity starts another attempt or gives up
ChatCommitFails(p) == ChatRetry(p) \/ ChatGiveUp(p)

PinnableIds == {NoSession, MissingId} \cup DOMAIN sessions

Next ==
    \/ \E d \in {TIMEOUT_SECONDS, TIMEOUT_SECONDS + 1} : Tick(d) /\ Record
    \/ \E p \in Procs, u \in Users, s \in PinnableIds :
          calls < MaxCalls /\ ChatStart(p, u, s) /\ Record
    \/ \E p \in Procs : ChatLoad(p) /\ Record
    \/ \E p \in Procs, k \in TokenUsages : ChatLLMReturns(p, k) /\ Record
    \/ \E p \in Procs : ChatLLMRaises(p) /\ Record
    \/ \E p \in Procs : ChatSave(p) /\ Record
    \/ \E p \in Procs : ChatCommit(p) /\ Record
    \/ \E p \in Procs : ChatCommitFails(p) /\ Record

Spec == Init /\ [][Next]_vars

\* calls of user "A" that pin nothing or a stored session, as many as it
\* takes for one of them to lose every attempt against the others
NextRetry ==
    \/ \E p \in Procs, s \in {NoSession} \cup DOMAIN sessions :
          calls < MaxRetryCalls /\ ChatStart(p, "A", s) /\ Record
    \/ \E p \in Procs : ChatLoad(p) /\ Record
    \/ \E p \in Procs, k \in TokenUsages : ChatLLMReturns(p, k) /\ Record
    \/ \E p \in Procs : ChatLLMRaises(p) /\ Record
    \/ \E p \in Procs : ChatSave(p) /\ Record
    \/ \E p \in Procs : ChatCommit(p) /\ Record
    \/ \E p \in Procs : ChatCommitFails(p) /\ Record

RetrySpec == Init /\ [][NextRetry]_vars


\* ------------------------------------------------- repository clients
\* transactions ended by the clients T, and those they have open
RECURSIVE TxRuns(_)
TxRuns(T) ==
    IF T = {} THEN 0
    ELSE LET t == CHOOSE x \in T : TRUE
         IN tx[t].runs + (IF tx[t].open THEN 1 ELSE 0) + TxRuns(T \ {t})

\* update_session calls of the clients T that wait for their commit
RECURSIVE TxPending(_)
TxPending(T) ==
    IF T = {} THEN 0
    ELSE LET t == CHOOSE x \in T : TRUE
         IN (IF tx[t].open THEN Len(tx[t].fin.stmts) ELSE 0) + TxPending(T \ {t})

\* service.get_or_create_user(user_name), in a new AsyncSession or again in
\* the one that asked for this user before
TxGetOrCreateUser(t, user_name) ==
    /\ IF tx[t].open
       THEN /\ ~HoldsSession(tx[t].fin)
            /\ tx[t].fin.user = user_name
            /\ tx' = [tx EXCEPT ![t].result = "existing"]
       ELSE /\ TxRuns(Txs) < MaxTxRuns
            /\ tx' = [tx EXCEPT ![t].open = TRUE,
                                ![t].fin = UserOnly(users, user_name),
                                ![t].result =
                                   IF UserOnly(users, user_name).newUser
                                   THEN "inserted" ELSE "existing"]
    /\ UNCHANGED <<users, sessions, now, ticks, calls, pc, call>>

\* service.create_session(user_name, session_id); its flush raises
\* IntegrityError when a session of that identifier is stored
TxCreate(t, user_name, session_id) ==
    /\ ~tx[t].open
    /\ TxRuns(Txs) < MaxTxRuns
    /\ IF session_id \in DOMAIN sessions
       THEN tx' = [tx EXCEPT ![t].result = "integrity",
                             ![t].runs = tx[t].runs + 1]
       ELSE tx' = [tx EXCEPT ![t].open = TRUE,
                             ![t].fin = Created(users, user_name, session_id, now),
                             ![t].result = "none"]
    /\ UNCHANGED <<users, sessions, now, ticks, calls, pc, call>>

\* service.get_session(session_id, user_name)
TxGet(t, session_id, user_name) ==
    /\ ~tx[t].open
    /\ TxRuns(Txs) < MaxTxRuns
    /\ LET g == GetSession(sessions, session_id, user_name)
       IN IF g.kind = "found"
          THEN \E found \in g.ids :
                 tx' = [tx EXCEPT ![t].open = TRUE,
                                  ![t].fin = Loaded(sessions, found),
                                  ![t].result = "none"]
          ELSE tx' = [tx EXCEPT ![t].result = g.kind,
                                ![t].runs = tx[t].runs + 1]
    /\ UNCHANGED <<users, sessions, now, ticks, calls, pc, call>>

\* service.update_session(session, history_data, token_usage, reset_token_count)
TxUpdate(t, history_data, token_usage, reset_token_count) ==
    /\ tx[t].open
    /\ HoldsSession(tx[t].fin)
    /\ TxPending(Txs) < MaxTxUpdates
    /\ tx' = [tx EXCEPT ![t].fin = Updated(tx[t].fin, history_data, token_usage,
                                           reset_token_count, now)]
    /\ UNCHANGED <<users, sessions, now, ticks, calls, pc, call>>

\* service.commit()
TxCommit(t) ==
    /\ tx[t].open
    /\ ~WriteConflict(users, sessions, tx[t].fin)
    /\ users' = IF tx[t].fin.created \/ tx[t].fin.newUser
                THEN users \cup {tx[t].fin.user} ELSE users
    /\ sessions' = Committed(sessions, tx[t].fin)
    /\ tx' = [tx EXCEPT ![t] = [NoTx EXCEPT !.result = "committed",
                                            !.runs = tx[t].runs + 1]]
    /\ UNCHANGED <<now, ticks, calls, pc, call>>

\* a failed commit whose token statements stay applied to the stored row
TxCommitFailsKeepsTokens(t) ==
    /\ tx[t].open
    /\ WriteConflict(users, sessions, tx[t].fin)
    /\ tx' = [tx EXCEPT ![t] = [NoTx EXCEPT !.result = IF tx[t].fin.created
                                                          \/ tx[t].fin.newUser
                                                       THEN "integrity"
                                                       ELSE "stale",
                                            !.runs = tx[t].runs + 1]]
    /\ sessions' = IF tx[t].fin.created \/ tx[t].fin.newUser THEN sessions
                   ELSE [sessions EXCEPT ![tx[t].fin.obj.session_id].token_count =
                           ApplyStmts(@, tx[t].fin.obj.token_count, tx[t].fin.stmts)]
    /\ UNCHANGED <<users, now, ticks, calls, pc, call>>

\* a failed commit that leaves the count computed from the stale copy
TxCommitFailsWritesStale(t) ==
    /\ tx[t].open
    /\ WriteConflict(users, sessions, tx[t].fin)
    /\ tx' = [tx EXCEPT ![t] = [NoTx EXCEPT !.result = IF tx[t].fin.created
                                                          \/ tx[t].fin.newUser
                                                       THEN "integrity"
                                                       ELSE "stale",
                                            !.runs = tx[t].runs + 1]]
    /\ sessions' = IF tx[t].fin.created \/ tx[t].fin.newUser THEN sessions
                   ELSE [sessions EXCEPT ![tx[t].fin.obj.session_id].token_count =
                           ApplyStmts(tx[t].fin.base.token_count,
                                      tx[t].fin.obj.token_count, tx[t].fin.stmts)]
    /\ UNCHANGED <<users, now, ticks, calls, pc, call>>

\* service.commit() raises StaleDataError or IntegrityError: the transaction
\* is rolled back
TxCommitFails(t) ==
    /\ tx[t].open
    /\ WriteConflict(users, sessions, tx[t].fin)
    /\ tx' = [tx EXCEPT ![t] = [NoTx EXCEPT !.result = IF tx[t].fin.created
                                                          \/ tx[t].fin.newUser
                                                       THEN "integrity"
                                                       ELSE "stale",
                                            !.runs = tx[t].runs + 1]]
    /\ UNCHANGED <<users, sessions, now, ticks, calls, pc, call>>

\* service.rollback()
TxRollback(t) ==
    /\ tx[t].open
    /\ tx' = [tx EXCEPT ![t] = [NoTx EXCEPT !.result = "rolledback",
                                            !.runs = tx[t].runs + 1]]
    /\ UNCHANGED <<users, sessions, now, ticks, calls, pc, call>>

\* the user names the clients pass
TxUsers == {"A"}

\* the histories a client writes
TxHistories(t) == {<<Turn("user", t)>>}

NextRepo ==
    \/ \E t \in Txs, u \in TxUsers : TxGetOrCreateUser(t, u) /\ Record
    \/ \E t \in Txs, u \in TxUsers, s \in {NoSession, SuppliedId} : TxCreate(t, u, s) /\ Record
    \/ \E t \in Txs, u \in TxUsers, s \in PinnableIds : TxGet(t, s, u) /\ Record
    \/ \E t \in Txs : \E h \in TxHistories(t), k \in TokenUsages, r \in BOOLEAN :
          TxUpdate(t, h, k, r) /\ Record
    \/ \E t \in Txs : TxCommit(t) /\ Record
    \/ \E t \in Txs : TxCommitFails(t) /\ Record
    \/ \E t \in Txs : TxRollback(t) /\ Record

RepoSpec == Init /\ [][NextRepo]_vars


\* ------------------------------------------------------ stored histories
\* the roles of a turn: the user's, the model's, a function response
Roles == {"user", "model", "function"}

\* the lists of turns a history_json can hold, each turn told apart by its place
StoredHistories ==
    UNION {{[i \in 1..n |-> Turn(r[i], i)] : r \in [1..n -> Roles]} :
             n \in 0..MaxStoredLen}

\* a committed session of user "A" with any stored history
InitHist ==
    /\ users = {"A"}
    /\ sessions \in {1 :> [NewRow("A", 0) EXCEPT !.history_json = JsonDumps(h)] :
                       h \in StoredHistories}
    /\ now = 0
    /\ ticks = 0
    /\ calls = 0
    /\ pc = [p \in Procs |-> "idle"]
    /\ call = [p \in Procs |-> NoCall]
    /\ tx = [t \in Txs |-> NoTx]
    /\ prev = NoStep

NextHist ==
    \/ \E p \in Procs, s \in PinnableIds \ {MissingId} :
          calls < MaxCalls /\ ChatStart(p, "A", s) /\ Record
    \/ \E p \in Procs : ChatLoad(p) /\ Record

HistSpec == InitHist /\ [][NextHist]_vars


\* --------------------------------------------------- undecodable history
\* a committed session of user "A" whose history_json json.loads cannot
\* decode (what is left of a history)
InitDecode ==
    /\ users = {"A"}
    /\ sessions = 1 :> [NewRow("A", 0) EXCEPT
                          !.history_json = [valid |-> FALSE,
                                            items |-> <<Turn("user", 0)>>]]
    /\ now = 0
    /\ ticks = 0
    /\ calls = 0
    /\ pc = [p \in Procs |-> "idle"]
    /\ call = [p \in Procs |-> NoCall]
    /\ tx = [t \in Txs |-> NoTx]
    /\ prev = NoStep

\* chat calls of user "A" while the session is active
NextDecode ==
    \/ \E p \in Procs, s \in PinnableIds \ {MissingId} :
          calls < MaxCalls /\ ChatStart(p, "A", s) /\ Record
    \/ \E p \in Procs : ChatLoad(p) /\ Record
    \/ \E p \in Procs, k \in TokenUsages : ChatLLMReturns(p, k) /\ Record
    \/ \E p \in Procs : ChatLLMRaises(p) /\ Record
    \/ \E p \in Procs : ChatSave(p) /\ Record
    \/ \E p \in Procs : ChatCommit(p) /\ Record
    \/ \E p \in Procs : ChatCommitFails(p) /\ Record

DecodeSpec == InitDecode /\ [][NextDecode]_vars

\* ------------------------------------------------------ generate_content
\* len(prompt) > 1000
MaxPromptLength == 1000

\* the prompt lengths a caller passes
PromptLens == {0, MaxPromptLength - 1, MaxPromptLength, MaxPromptLength + 1}

\* a caller invokes generate_content(prompt)
GenStart(p, n) ==
    /\ pc[p] \in {"idle", "done"}
    /\ calls < MaxCalls
    /\ calls' = calls + 1
    /\ pc' = [pc EXCEPT ![p] = "gen"]
    /\ call' = [call EXCEPT ![p] = [NoCall EXCEPT !.prompt = n, !.attempt = 1]]
    /\ UNCHANGED <<users, sessions, now, ticks, tx>>

\* a length check that turns away the longest prompt too
GenValidateRejectsLimit(p) ==
    /\ pc[p] = "gen"
    /\ IF call[p].prompt >= MaxPromptLength
       THEN /\ pc' = [pc EXCEPT ![p] = "done"]
            /\ call' = [call EXCEPT ![p] =
                          Finished(call[p], "validation", NoSession)]
       ELSE /\ pc' = [pc EXCEPT ![p] = "genllm"]
            /\ call' = [call EXCEPT ![p].history = <<>>]
    /\ UNCHANGED <<users, sessions, now, ticks, calls, tx>>

\* the length check (HTTPException 400), then history = []
GenValidate(p) ==
    /\ pc[p] = "gen"
    /\ IF call[p].prompt > MaxPromptLength
       THEN /\ pc' = [pc EXCEPT ![p] = "done"]
            /\ call' = [call EXCEPT ![p] =
                          Finished(call[p], "validation", NoSession)]
       ELSE /\ pc' = [pc EXCEPT ![p] = "genllm"]
            /\ call' = [call EXCEPT ![p].history = <<>>]
    /\ UNCHANGED <<users, sessions, now, ticks, calls, tx>>

\* agent.chat(history=history, user_prompt=prompt) answers: its text is returned
GenLLMReturns(p) ==
    /\ pc[p] = "genllm"
    /\ pc' = [pc EXCEPT ![p] = "done"]
    /\ call' = [call EXCEPT ![p] =
                  Finished([call[p] EXCEPT !.llm = call[p].llm + 1],
                           "ok", NoSession)]
    /\ UNCHANGED <<users, sessions, now, ticks, calls, tx>>

\* agent.chat raises: the exception leaves generate_content as it is
GenLLMRaises(p) ==
    /\ pc[p] = "genllm"
    /\ pc' = [pc EXCEPT ![p] = "done"]
    /\ call' = [call EXCEPT ![p] =
                  Finished([call[p] EXCEPT !.llm = call[p].llm + 1],
                           "error", NoSession)]
    /\ UNCHANGED <<users, sessions, now, ticks, calls, tx>>

NextGen ==
    \/ \E p \in Procs, n \in PromptLens : GenStart(p, n) /\ Record
    \/ \E p \in Procs : GenValidate(p) /\ Record
    \/ \E p \in Procs : GenLLMReturns(p) /\ Record
    \/ \E p \in Procs : GenLLMRaises(p) /\ Record

\* generate_content calls over a store that holds a session
GenSpec == InitHist /\ [][NextGen]_vars


\* ------------------------------------------------------ process_chat_turn
\* _MAX_LOOPS
MAX_LOOPS == 5

\* what a model response holds: a function call in some part, or none
Responses == {"function_call", "text"}

\* the locals of a process_chat_turn: the send_message invocations made, how
\* many of them returned, the loop iterations begun, the tool errors caught,
\* and the latest response
NoTurn == [sends |-> 0, answered |-> 0, loops |-> 0, errors |-> 0,
           response |-> "none", result |-> "none"]

InitAgent ==
    /\ users = {}
    /\ sessions = <<>>
    /\ now = 0
    /\ ticks = 0
    /\ calls = 0
    /\ pc = [p \in Procs |-> "idle"]
    /\ call = [p \in Procs |-> NoTurn]
    /\ tx = [t \in Txs |-> NoTx]
    /\ prev = NoStep

\* process_chat_turn(chat, user_prompt) is entered: the prompt is to be sent
TurnStart(p) ==
    /\ pc[p] = "idle"
    /\ pc' = [pc EXCEPT ![p] = "prompt"]
    /\ UNCHANGED <<users, sessions, now, ticks, calls, call, tx>>

\* chat.send_message returns a response: after the prompt, after a tool's
\* result, after a tool's error
SendMessageReturns(p, r) ==
    /\ pc[p] \in {"prompt", "send_result", "send_error"}
    /\ pc' = [pc EXCEPT ![p] = "loop"]
    /\ call' = [call EXCEPT ![p].sends = call[p].sends + 1,
                            ![p].answered = call[p].answered + 1,
                            ![p].response = r]
    /\ UNCHANGED <<users, sessions, now, ticks, calls, tx>>

\* chat.send_message raises: of the tool's result, inside the try, so that
\* the handler sends the error; of the prompt or of the error, out of the
\* function
SendMessageRaises(p) ==
    /\ pc[p] \in {"prompt", "send_result", "send_error"}
    /\ IF pc[p] = "send_result"
       THEN /\ pc' = [pc EXCEPT ![p] = "send_error"]
            /\ call' = [call EXCEPT ![p].sends = call[p].sends + 1,
                                    ![p].errors = call[p].errors + 1]
       ELSE /\ pc' = [pc EXCEPT ![p] = "done"]
            /\ call' = [call EXCEPT ![p].sends = call[p].sends + 1,
                                    ![p].result = "raised"]
    /\ UNCHANGED <<users, sessions, now, ticks, calls, tx>>

\* for _ in range(_MAX_LOOPS): the next iteration looks for a function call
\* in the response and breaks when there is none; after the loop the text of
\* the response is returned
LoopNext(p) ==
    /\ pc[p] = "loop"
    /\ IF call[p].loops < MAX_LOOPS /\ call[p].response = "function_call"
       THEN /\ pc' = [pc EXCEPT ![p] = "tool"]
            /\ call' = [call EXCEPT ![p].loops = call[p].loops + 1]
       ELSE /\ pc' = [pc EXCEPT ![p] = "done"]
            /\ call' = [call EXCEPT ![p].result = "returned"]
    /\ UNCHANGED <<users, sessions, now, ticks, calls, tx>>

\* the tool implementation returns
ToolReturns(p) ==
    /\ pc[p] = "tool"
    /\ pc' = [pc EXCEPT ![p] = "send_result"]
    /\ UNCHANGED <<users, sessions, now, ticks, calls, call, tx>>

\* the lookup of the implementation or the tool raises
ToolRaises(p) ==
    /\ pc[p] = "tool"
    /\ pc' = [pc EXCEPT ![p] = "send_error"]
    /\ call' = [call EXCEPT ![p].errors = call[p].errors + 1]
    /\ UNCHANGED <<users, sessions, now, ticks, calls, tx>>

NextAgent ==
    \/ \E p \in Procs : TurnStart(p) /\ Record
    \/ \E p \in Procs, r \in Responses : SendMessageReturns(p, r) /\ Record
    \/ \E p \in Procs : SendMessageRaises(p) /\ Record
    \/ \E p \in Procs : LoopNext(p) /\ Record
    \/ \E p \in Procs : ToolReturns(p) /\ Record
    \/ \E p \in Procs : ToolRaises(p) /\ Record

AgentSpec == InitAgent /\ [][NextAgent]_vars


\* ---------------------------------------------------------------- claims
\* a claim about a step is stated of the state the step leads to: prev holds
\* the state it started from, and a step that changed nothing says nothing
Stepped == prev.step /\ prev # Before

Running == {"load", "llm", "save", "commit"}

ThisTurn(p) == <<Turn("user", p), Turn("model", p)>>

\* the step in which chat call p commits its write
Commits(p) == prev.pc[p] = "commit" /\ pc[p] = "done" /\ call[p].result = "ok"

\* the step in which repository client t commits
TxCommits(t) == prev.tx[t].open /\ ~tx[t].open /\ tx[t].result = "committed"

RECURSIVE SumAdds(_)
SumAdds(stmts) ==
    IF stmts = <<>> THEN 0 ELSE Head(stmts).n + SumAdds(Tail(stmts))

\* C1: when a client's commit is attempted on an updated in-memory session
\* whose version is not the stored one, the commit fails as stale and every
\* stored row, the other writer's history included, stays as it is.
C1_StaleWriteFails ==
    (Stepped => (\A t \in Txs :
          (/\ prev.tx[t].open
           /\ ~tx[t].open
           /\ tx[t].result # "rolledback"
           /\ ~prev.tx[t].fin.created
           /\ prev.tx[t].fin.stmts # <<>>
           /\ prev.tx[t].fin.obj.version
                # prev.sessions[prev.tx[t].fin.obj.session_id].version)
          => (tx[t].result = "stale" /\ sessions = prev.sessions
              /\ users = prev.users)))

C1_Witness ==
    \E t \in Txs, s \in DOMAIN sessions :
        /\ tx[t].result = "stale"
        /\ sessions[s].version > 1
        /\ sessions[s].history_json.items # <<>>
        /\ \A i \in 1..Len(sessions[s].history_json.items) :
              sessions[s].history_json.items[i].by # t

\* C2: a chat call that commits a turn to an existing session without
\* resetting it built that turn on the history stored at the time of the
\* commit, so no turn committed meanwhile is overwritten.
C2_NoLostHistoryUpdate ==
    (Stepped => (\A p \in Procs :
          (Commits(p) /\ ~prev.call[p].fin.created /\ ~prev.call[p].data.reset)
          => prev.call[p].history
               = LoadHistory(prev.sessions[prev.call[p].fin.obj.session_id])))

\* C3: the non-reset increments a committed transaction applied to a session
\* leave its stored token_count at the value stored before plus their sum,
\* also when several were issued on the same in-memory copy.
C3_IncrementsCompose ==
    (Stepped => (\A t \in Txs :
          (/\ TxCommits(t)
           /\ prev.tx[t].fin.stmts # <<>>
           /\ \A i \in 1..Len(prev.tx[t].fin.stmts) : prev.tx[t].fin.stmts[i].op = "add")
          => LET id == WrittenId(prev.sessions, prev.tx[t].fin)
                 before == IF prev.tx[t].fin.created THEN 0
                           ELSE prev.sessions[id].token_count
             IN sessions[id].token_count
                  = before + SumAdds(prev.tx[t].fin.stmts)))

C3_Witness ==
    \E t \in Txs, s \in DOMAIN sessions :
        /\ tx[t].result = "committed"
        /\ sessions[s].token_count = 2 * MaxUsage

\* the step in which an attempt of call p resolves a session that is not
\* expired and whose token_count is at or above the limit
ResolvesOverQuota(p) ==
    /\ prev.pc[p] = "load"
    /\ pc[p] # "load"
    /\ call[p].initial # NoSession
    /\ ~(prev.now - prev.sessions[call[p].initial].last_active > TIMEOUT_SECONDS)
    /\ prev.sessions[call[p].initial].token_count >= MAX_TOKENS_PER_CHAT_SESSION

\* C4 as stated: the call fails with the quota error, the collaborator has
\* been invoked zero times in the call, and the store is not written.
C4_QuotaNoCollaboratorCallAtAll ==
    (Stepped => (\A p \in Procs :
          ResolvesOverQuota(p)
          => (/\ pc[p] = "done"
              /\ call[p].result = "quota"
              /\ call[p].llm = 0
              /\ sessions = prev.sessions /\ users = prev.users)))

\* C4: the attempt that resolves such a session ends the call with the quota
\* error without invoking the collaborator and without a store write.
C4_QuotaFailsFast ==
    (Stepped => (\A p \in Procs :
          ResolvesOverQuota(p)
          => (/\ pc[p] = "done"
              /\ call[p].result = "quota"
              /\ call[p].llm = prev.call[p].llm
              /\ call[p].wrote = 0
              /\ sessions = prev.sessions /\ users = prev.users)))

C4_Witness ==
    \E p \in Procs :
        /\ pc[p] = "done"
        /\ call[p].result = "quota"
        /\ call[p].llm = 0
        /\ sessions[call[p].initial].token_count = MAX_TOKENS_PER_CHAT_SESSION

C6_CrossUserRejected ==
    \A s \in DOMAIN sessions, u \in Users :
        u # sessions[s].user_name
        => GetSession(sessions, s, u).kind = "forbidden"

\* C7: a chat call that pins a session owned by another user ends with the
\* 403 error in its first phase, before the collaborator is invoked, and
\* changes no row.
C7_CrossUserChatRejected ==
    (Stepped => (\A p \in Procs :
          (/\ prev.pc[p] = "load"
           /\ pc[p] # "load"
           /\ prev.call[p].sid \in DOMAIN prev.sessions
           /\ prev.sessions[prev.call[p].sid].user_name # prev.call[p].user)
          => (/\ pc[p] = "done"
              /\ call[p].result = "forbidden"
              /\ call[p].llm = prev.call[p].llm
              /\ sessions = prev.sessions /\ users = prev.users)))

\* C8: an attempt that resolves a pinned session as expired goes on to the
\* collaborator with an empty history and a scheduled reset whatever the
\* stored token_count; its commit writes the pinned session, returns its id,
\* and leaves its token_count at this turn's usage and its history at this
\* turn alone.
C8_PinnedExpiredReset ==
    /\ (Stepped => (\A p \in Procs :
            (/\ prev.pc[p] = "load"
             /\ pc[p] # "load"
             /\ prev.call[p].sid \in DOMAIN prev.sessions
             /\ call[p].result # "forbidden"
             /\ prev.now - prev.sessions[prev.call[p].sid].last_active > TIMEOUT_SECONDS)
            => (/\ pc[p] = "llm"
                /\ call[p].history = <<>>
                /\ call[p].data.reset
                /\ call[p].data.session_id = prev.call[p].sid)))
    /\ (\A p \in Procs :
            (pc[p] \in Running /\ call[p].data.reset)
            => (/\ call[p].history = <<>>
                /\ call[p].sid # NoSession
                /\ call[p].data.session_id = call[p].sid))
    /\ (Stepped => (\A p \in Procs :
            (Commits(p) /\ prev.call[p].data.reset)
            => (/\ call[p].ret = prev.call[p].sid
                /\ DOMAIN sessions = DOMAIN prev.sessions
                /\ sessions[prev.call[p].sid].token_count = prev.call[p].usage
                /\ sessions[prev.call[p].sid].history_json
                     = JsonDumps(ThisTurn(p)))))

C8_Witness ==
    \E p \in Procs :
        /\ pc[p] = "done"
        /\ call[p].result = "ok"
        /\ call[p].data.reset
        /\ call[p].ret = call[p].sid
        /\ sessions[call[p].ret].version > 2
        /\ sessions[call[p].ret].last_active > TIMEOUT_SECONDS

Rank(running, c) ==
    IF running = "done" THEN 4 * (MaxAttempts + 1)
    ELSE 4 * c.attempt
         + (CASE running = "load" -> 0 [] running = "llm" -> 1
              [] running = "save" -> 2 [] OTHER -> 3)

\* C10: a call makes at most 3 attempts; a write conflict in an attempt
\* before the third restarts the call at its first phase with nothing kept
\* from the attempt and nothing written, a conflict in the third ends the
\* call with the conflict error; every step of a call moves it forward, and
\* a call not waiting for the collaborator can always take a step.
C10_BoundedRetry ==
    /\ (\A p \in Procs :
            /\ call[p].attempt <= MaxAttempts
            /\ call[p].llm <= MaxAttempts
            /\ pc[p] \in {"load", "save", "commit"}
               => ENABLED (\/ ChatLoad(p) \/ ChatSave(p) \/ ChatCommit(p)
                           \/ ChatRetry(p) \/ ChatGiveUp(p)))
    /\ (Stepped => (\A p \in Procs :
            (/\ prev.pc[p] = "commit"
             /\ WriteConflict(prev.users, prev.sessions, prev.call[p].fin)
             /\ <<pc[p], call[p]>> # <<prev.pc[p], prev.call[p]>>)
            => /\ sessions = prev.sessions /\ users = prev.users
               /\ IF prev.call[p].attempt < MaxAttempts
                  THEN /\ pc[p] = "load"
                       /\ call[p].attempt = prev.call[p].attempt + 1
                       /\ call[p].initial = NoSession
                       /\ call[p].history = <<>>
                       /\ call[p].data = NoData
                       /\ call[p].fin = NoFin
                  ELSE /\ pc[p] = "done"
                       /\ call[p].result = "conflict"))
    /\ (Stepped => (\A p \in Procs :
            (prev.pc[p] \in Running /\ <<pc[p], call[p]>> # <<prev.pc[p], prev.call[p]>>)
            => Rank(pc[p], call[p]) > Rank(prev.pc[p], prev.call[p])))

C10_Witness ==
    \E p \in Procs :
        /\ pc[p] = "done"
        /\ call[p].result = "conflict"
        /\ call[p].llm = MaxAttempts
        /\ call[p].wrote = 0

\* C11: an attempt that ends in a write conflict leaves the store as it was,
\* and a call that commits in a later attempt has committed nothing before:
\* its one commit writes one session, whose history is the history that
\* attempt loaded plus this call's turn once, inserts a row only when that
\* attempt resolved no session, and changes no other row.
C11_RetryCommitsOnce ==
    /\ (Stepped => (\A p \in Procs :
            (prev.pc[p] = "commit" /\ pc[p] = "load")
            => /\ sessions = prev.sessions /\ users = prev.users
               /\ call[p].wrote = prev.call[p].wrote))
    /\ (Stepped => (\A p \in Procs :
            (Commits(p) /\ prev.call[p].attempt > 1)
            => LET id == call[p].ret
               IN /\ prev.call[p].wrote = 0 /\ call[p].wrote = 1
                  /\ DOMAIN sessions = DOMAIN prev.sessions \cup {id}
                  /\ (id \in DOMAIN prev.sessions) <=> ~prev.call[p].fin.created
                  /\ prev.call[p].fin.created => prev.call[p].initial = NoSession
                  /\ \A s \in DOMAIN prev.sessions \ {id} : sessions[s] = prev.sessions[s]
                  /\ sessions[id].history_json.items
                       = prev.call[p].history \o ThisTurn(p)
                  /\ users \subseteq prev.users \cup {prev.call[p].user}))

C11_Witness ==
    \E p \in Procs :
        /\ pc[p] = "done"
        /\ call[p].result = "ok"
        /\ call[p].llm >= 2
        /\ call[p].wrote = 1
        /\ call[p].ret \in DOMAIN sessions

\* C12: a call of a named user that resolved no session commits a newly
\* created session only when that user has no unexpired session stored, so
\* two calls that both decided to create never both commit one.
C12_OneCreatedSessionPerRace ==
    (Stepped => (\A p \in Procs :
          (/\ Commits(p)
           /\ prev.call[p].fin.created
           /\ prev.call[p].user # EmptyName)
          => \A s \in DOMAIN prev.sessions :
                prev.sessions[s].user_name = prev.call[p].user
                => IsExpired(prev.sessions[s], prev.now)))

\* C13: while a call waits for the collaborator it holds no transaction; the
\* collaborator is entered only from a completed phase 1 and answers only
\* in phase 2; the transaction of phase 3 begins only after the collaborator
\* answered in this attempt, and a call writes the store only by committing
\* that transaction.
C13_ReadThenLLMThenWrite ==
    /\ (\A p \in Procs : pc[p] \in {"load", "llm"} => call[p].fin = NoFin)
    /\ (Stepped => (\A p \in Procs :
            /\ (pc[p] = "llm" /\ prev.pc[p] # "llm") => prev.pc[p] = "load"
            /\ (prev.pc[p] \in Running /\ call[p].llm # prev.call[p].llm)
               => (prev.pc[p] = "llm" /\ call[p].llm = prev.call[p].llm + 1)
            /\ (call[p].fin # NoFin /\ prev.call[p].fin = NoFin)
               => (prev.pc[p] = "save" /\ prev.call[p].llm >= 1 /\ prev.call[p].resp # <<>>)
            /\ (prev.pc[p] \in Running /\ call[p].wrote # prev.call[p].wrote)
               => (prev.pc[p] = "commit" /\ prev.call[p].fin # NoFin)))
    /\ (Stepped => ((sessions # prev.sessions \/ users # prev.users)
            => \E p \in Procs : prev.pc[p] = "commit" /\ Commits(p)))

C13_Witness ==
    \E p, q \in Procs :
        /\ pc[p] = "llm"
        /\ call[p].initial # NoSession
        /\ call[p].history # <<>>
        /\ call[p].attempt = 2
        /\ pc[q] = "commit"
        /\ call[q].fin # NoFin

\* C14: the token_count a committed update_session leaves in the store: with
\* reset_token_count it is exactly token_usage whatever was stored before,
\* without it it is the value stored before plus token_usage.
C14_ResetSetsElseAdds ==
    (Stepped => (\A t \in Txs :
          (TxCommits(t) /\ prev.tx[t].fin.stmts # <<>>)
          => LET fin == prev.tx[t].fin
                 id == WrittenId(prev.sessions, fin)
                 before == IF fin.created THEN 0 ELSE prev.sessions[id].token_count
                 last == fin.stmts[Len(fin.stmts)]
             IN /\ last.op = "set" => sessions[id].token_count = last.n
                /\ (Len(fin.stmts) = 1 /\ last.op = "add")
                   => sessions[id].token_count = before + last.n))

\* a committed reset has lowered a token_count another client had loaded
C14_Witness ==
    \E t, u \in Txs :
        /\ tx[t].result = "committed"
        /\ tx[u].open
        /\ ~tx[u].fin.created
        /\ tx[u].fin.base.token_count > 0
        /\ sessions[tx[u].fin.obj.session_id].token_count = 0

\* the history call p handed to the collaborator and the stored one it came from
HandedOver(p) == pc[p] = "llm" /\ call[p].initial # NoSession

StoredItems(p) == sessions[call[p].initial].history_json.items

BeginsWithUser(h) == h = <<>> \/ h[1].role = "user"

\* C15 as stated: the loaded history of every stored history is empty or
\* begins with a user turn.
C15_LoadedBeginsWithUser ==
    \A p \in Procs : HandedOver(p) => BeginsWithUser(call[p].history)

\* C15: a stored history longer than MAX_HISTORY_LENGTH is loaded as a
\* history that is empty or begins with a user turn; a stored history of at
\* most MAX_HISTORY_LENGTH entries is loaded as it is stored.
C15_TruncatedBeginsWithUser ==
    \A p \in Procs :
        HandedOver(p)
        => IF Len(StoredItems(p)) > MAX_HISTORY_LENGTH
           THEN BeginsWithUser(call[p].history)
           ELSE call[p].history = StoredItems(p)

C15_Witness ==
    \E p \in Procs :
        /\ HandedOver(p)
        /\ Len(StoredItems(p)) > MAX_HISTORY_LENGTH
        /\ StoredItems(p)[Len(StoredItems(p)) - MAX_HISTORY_LENGTH + 1].role # "user"
        /\ call[p].history # <<>>
        /\ Len(call[p].history) < MAX_HISTORY_LENGTH

\* C16: the history handed to the collaborator has at most
\* MAX_HISTORY_LENGTH entries and is the stored history without some of its
\* first entries: the same entries in the same order up to the last one.
C16_BoundedSuffix ==
    \A p \in Procs :
        HandedOver(p)
        => LET h == call[p].history
               st == StoredItems(p)
           IN /\ Len(h) <= MAX_HISTORY_LENGTH
              /\ Len(h) <= Len(st)
              /\ \A i \in 1..Len(h) : h[i] = st[Len(st) - Len(h) + i]

C16_Witness ==
    \E p \in Procs :
        /\ HandedOver(p)
        /\ Len(StoredItems(p)) = MaxStoredLen
        /\ Len(call[p].history) = MAX_HISTORY_LENGTH

\* C17: a commit inserts a user row only for a name no stored row has, and
\* the stored users change in no other step, so no name ever has two rows;
\* a call for a name that is stored, or that the same transaction already
\* added, returns the existing user and the transaction goes on.
C17_GetOrCreateUserIdempotent ==
    /\ (Stepped => (\A t \in Txs :
            TxCommits(t)
            => IF prev.tx[t].fin.newUser
               THEN prev.tx[t].fin.user \notin prev.users
                    /\ users = prev.users \cup {prev.tx[t].fin.user}
               ELSE users = prev.users /\ prev.tx[t].fin.user \in prev.users))
    /\ (Stepped => (users # prev.users => \E t \in Txs : TxCommits(t)))
    /\ (Stepped => (\A t \in Txs, u \in Users :
            (/\ ~HoldsSession(tx[t].fin)
             /\ u \in prev.users \/ (prev.tx[t].open /\ prev.tx[t].fin.user = u)
             /\ tx[t] # prev.tx[t]
             /\ tx[t].open
             /\ tx[t].fin.user = u)
            => tx[t].result = "existing"
               /\ tx[t].fin.newUser = (prev.tx[t].open /\ prev.tx[t].fin.newUser)))

\* one client got the user it had added itself, another the committed one
C17_Witness ==
    \E t, u \in Txs :
        /\ tx[t].open /\ tx[t].result = "existing" /\ tx[t].fin.newUser
        /\ tx[u].open /\ tx[u].result = "existing" /\ ~tx[u].fin.newUser
        /\ tx[u].fin.user \in users
        /\ tx[u].runs > 0

\* C20: a created session as the client holds it is owned by the user it was
\* created for, with token_count 0 and an empty history; its commit stores
\* the user and adds exactly one session row, under the supplied identifier
\* when one was supplied and else under one no stored session has, with the
\* values the client holds, and changes no other row.
C20_CreateSession ==
    /\ (\A t \in Txs :
            (tx[t].open /\ tx[t].fin.created /\ tx[t].fin.stmts = <<>>)
            => /\ tx[t].fin.obj.user_name = tx[t].fin.user
               /\ tx[t].fin.obj.token_count = 0
               /\ tx[t].fin.obj.history_json = JsonDumps(<<>>)
               /\ tx[t].fin.obj.session_id \notin DOMAIN sessions
                  \/ WriteConflict(users, sessions, tx[t].fin))
    /\ (Stepped => (\A t \in Txs :
            (TxCommits(t) /\ prev.tx[t].fin.created)
            => LET fin == prev.tx[t].fin
                   new == DOMAIN sessions \ DOMAIN prev.sessions
               IN /\ fin.user \in users
                  /\ DOMAIN prev.sessions \subseteq DOMAIN sessions
                  /\ Cardinality(new) = 1
                  /\ fin.obj.session_id # NoSession => new = {fin.obj.session_id}
                  /\ \A id \in new :
                        /\ id # NoSession
                        /\ sessions[id].user_name = fin.user
                        /\ fin.stmts = <<>>
                           => /\ sessions[id].token_count = 0
                              /\ sessions[id].history_json = JsonDumps(<<>>)
                              /\ sessions[id].last_active = fin.obj.last_active
                  /\ \A s \in DOMAIN prev.sessions : sessions[s] = prev.sessions[s]))

\* a generated and a supplied identifier are stored, both as created
C20_Witness ==
    /\ SuppliedId \in DOMAIN sessions
    /\ \E s \in DOMAIN sessions :
          /\ s # SuppliedId
          /\ sessions[s].user_name \in users
          /\ sessions[s].version = 1
          /\ sessions[s].token_count = 0
    /\ sessions[SuppliedId].version = 1
    /\ sessions[SuppliedId].history_json = JsonDumps(<<>>)

\* C18: get_session with a user name and no identifier returns None without
\* error when that user owns no session, and else one of that user's
\* sessions than which none was active later.
C18_LatestSessionOfUser ==
    \A u \in Users :
        LET g == GetSession(sessions, NoSession, u)
            mine == {s \in DOMAIN sessions : sessions[s].user_name = u}
        IN IF mine = {} THEN g.kind = "none"
           ELSE /\ g.kind = "found"
                /\ g.ids # {}
                /\ \A s \in g.ids :
                      /\ s \in mine
                      /\ \A o \in mine :
                            sessions[o].last_active <= sessions[s].last_active

\* C19: get_session with an identifier no session has raises the 404 error
\* for every user name, and a chat call that pins such an identifier ends
\* with it in its first phase: the collaborator is never invoked and no row
\* is written.
C19_MissingSessionNotFound ==
    /\ (\A u \in Users, id \in PinnableIds \ {NoSession} :
            id \notin DOMAIN sessions
            => GetSession(sessions, id, u).kind = "notfound")
    /\ (Stepped => (\A p \in Procs :
            (/\ prev.pc[p] = "load"
             /\ pc[p] # "load"
             /\ prev.call[p].sid # NoSession
             /\ prev.call[p].sid \notin DOMAIN prev.sessions)
            => /\ pc[p] = "done"
               /\ call[p].result = "notfound"
               /\ call[p].llm = 0
               /\ call[p].wrote = 0
               /\ sessions = prev.sessions /\ users = prev.users))

C19_Witness ==
    \E p \in Procs :
        /\ pc[p] = "done"
        /\ call[p].result = "notfound"
        /\ call[p].sid = MissingId
        /\ call[p].llm = 0
        /\ sessions # <<>>
        /\ call[p].user \in users

\* the step is one of call p
StepOf(p) == <<pc[p], call[p]>> # <<prev.pc[p], prev.call[p]>>

\* C21: phase 1 is left for the collaborator or for the end of the call,
\* never for another attempt; when get_session raises the 403 or the 404
\* error the call ends with it, and a call that ends in phase 1 ends with
\* the 403, the 404 or the quota error in the attempt the error occurred in,
\* without a collaborator call or a write in that attempt; a call that has
\* ended takes no further step.
C21_TerminalErrors ==
    /\ (Stepped => (\A p \in Procs :
            (prev.pc[p] = "load" /\ StepOf(p))
            => LET g == GetSession(prev.sessions, prev.call[p].sid, prev.call[p].user)
               IN /\ pc[p] \in {"llm", "done"}
                  /\ g.kind \in {"forbidden", "notfound"}
                     => (pc[p] = "done" /\ call[p].result = g.kind)
                  /\ pc[p] = "done"
                     => /\ call[p].result \in {"forbidden", "notfound", "quota"}
                        /\ call[p].llm = prev.call[p].llm
                        /\ call[p].wrote = 0
                        /\ sessions = prev.sessions /\ users = prev.users))
    /\ (Stepped => (\A p \in Procs :
            (prev.pc[p] = "done" /\ StepOf(p))
            => /\ pc[p] = "load"
               /\ calls = prev.calls + 1
               /\ call[p].attempt = 1
               /\ call[p].llm = 0))

C21_Witness ==
    \E p, q \in Procs :
        /\ pc[p] = "done" /\ call[p].result = "forbidden"
        /\ call[p].llm = 0 /\ call[p].wrote = 0
        /\ pc[q] = "done" /\ call[q].result = "quota"
        /\ call[q].wrote = 0

LatestOf(S, u) ==
    {s \in DOMAIN S :
        /\ S[s].user_name = u
        /\ \A o \in DOMAIN S :
              S[o].user_name = u => S[o].last_active <= S[s].last_active}

\* C25: an attempt without a pinned id that goes on to the collaborator has
\* resolved the user's latest session when that session is not expired, and
\* no session otherwise; the commit of a call returns the pinned id when one
\* was given, else the session the attempt resolved, else an id no stored
\* session had, and the returned id names the one row the commit wrote.
C25_ReturnsWrittenSession ==
    /\ (Stepped => (\A p \in Procs :
            (prev.pc[p] = "load" /\ pc[p] = "llm" /\ prev.call[p].sid = NoSession)
            => LET active == {s \in LatestOf(prev.sessions, prev.call[p].user) :
                                ~IsExpired(prev.sessions[s], prev.now)}
               IN IF active # {} THEN call[p].initial \in active
                  ELSE call[p].initial = NoSession))
    /\ (Stepped => (\A p \in Procs :
            Commits(p)
            => LET ret == call[p].ret
               IN /\ prev.call[p].sid # NoSession => ret = prev.call[p].sid
                  /\ (prev.call[p].sid = NoSession /\ prev.call[p].initial # NoSession)
                     => ret = prev.call[p].initial
                  /\ (prev.call[p].sid = NoSession /\ prev.call[p].initial = NoSession)
                     => ret \notin DOMAIN prev.sessions
                  /\ DOMAIN sessions = DOMAIN prev.sessions \cup {ret}
                  /\ \A s \in DOMAIN prev.sessions \ {ret} : sessions[s] = prev.sessions[s]
                  /\ ret \in DOMAIN prev.sessions
                     => sessions[ret].version > prev.sessions[ret].version))

\* C28: update_session of phase 3 stamps the in-memory session with the
\* current time and the serialized full history the collaborator returned;
\* the commit stores exactly that stamp and that history in the returned
\* session, whatever history was stored before, and when no time has passed
\* since the stamp a lookup of the session right after the commit, pinned or
\* by user, finds it active.
C28_TurnRefreshesSession ==
    /\ (Stepped => (\A p \in Procs :
            (prev.pc[p] = "save" /\ pc[p] = "commit")
            => /\ call[p].fin.obj.last_active = prev.now
               /\ call[p].fin.obj.history_json
                    = JsonDumps(SerializeHistory(prev.call[p].resp))))
    /\ (Stepped => (\A p \in Procs :
            Commits(p)
            => LET ret == call[p].ret
                   pinned == LoadContext(sessions, ret, ret, now)
                   byUser == LoadContext(sessions, NoSession, ret, now)
               IN /\ ret \in DOMAIN sessions
                  /\ sessions[ret].last_active = prev.call[p].fin.obj.last_active
                  /\ sessions[ret].history_json
                       = JsonDumps(SerializeHistory(prev.call[p].resp))
                  /\ prev.call[p].fin.obj.last_active = prev.now
                     => /\ ~IsExpired(sessions[ret], now)
                        /\ pinned.initial = ret /\ ~pinned.data.reset
                        /\ byUser.initial = ret /\ byUser.data.some))

\* a second turn was committed to a session whose stamp had been the start
C28_Witness ==
    \E p \in Procs :
        /\ pc[p] = "done"
        /\ call[p].result = "ok"
        /\ call[p].ret \in DOMAIN sessions
        /\ now = TIMEOUT_SECONDS
        /\ sessions[call[p].ret].last_active = now
        /\ Len(sessions[call[p].ret].history_json.items) = 4

\* C30: a chat call that has found its pinned session expired changes no
\* stored row in any of its steps but its commit: not in the step that makes
\* the expiry check, not while the collaborator runs, not when the write is
\* prepared, retried or given up; a call that scheduled the reset and ended
\* in an error has committed nothing, and the commit is the step that leaves
\* the session with this turn alone and this turn's usage.
C30_ResetOnlyAtCommit ==
    /\ (Stepped => (\A p \in Procs :
            (/\ StepOf(p)
             /\ prev.pc[p] \in Running
             /\ ~Commits(p)
             /\ prev.call[p].data.reset \/ call[p].data.reset)
            => (sessions = prev.sessions /\ users = prev.users)))
    /\ (\A p \in Procs :
            (pc[p] = "done" /\ call[p].result # "ok" /\ call[p].data.reset)
            => call[p].wrote = 0)
    /\ (Stepped => (\A p \in Procs :
            (Commits(p) /\ prev.call[p].data.reset)
            => /\ sessions[prev.call[p].sid].history_json.items = ThisTurn(p)
               /\ sessions[prev.call[p].sid].token_count = prev.call[p].usage))

\* the collaborator failed after the reset of a used session was scheduled
C30_Witness ==
    \E p \in Procs :
        /\ pc[p] = "done"
        /\ call[p].result = "unavailable"
        /\ call[p].data.reset
        /\ call[p].sid \in DOMAIN sessions
        /\ IsExpired(sessions[call[p].sid], now)
        /\ sessions[call[p].sid].history_json.items # <<>>
        /\ sessions[call[p].sid].token_count > 0

\* C26: no step removes a stored session or lowers its version; every step
\* that changes a stored session in any field, the token count alone
\* included, raises its version; and every commit of a transaction that
\* called update_session on a loaded session leaves that session with a
\* greater version than it had.
C26_VersionStrictlyIncreases ==
    /\ (Stepped => (\A s \in DOMAIN prev.sessions :
            /\ s \in DOMAIN sessions
            /\ sessions[s].version >= prev.sessions[s].version
            /\ sessions[s] # prev.sessions[s]
               => sessions[s].version > prev.sessions[s].version))
    /\ (Stepped => (\A t \in Txs :
            (TxCommits(t) /\ ~prev.tx[t].fin.created /\ prev.tx[t].fin.stmts # <<>>)
            => sessions[prev.tx[t].fin.obj.session_id].version
                 > prev.sessions[prev.tx[t].fin.obj.session_id].version))

\* a client's later transaction wrote the history it had written before
C26_Witness ==
    \E t \in Txs, s \in DOMAIN sessions :
        /\ tx[t].result = "committed"
        /\ tx[t].runs >= 2
        /\ sessions[s].version >= 3
        /\ sessions[s].history_json = JsonDumps(<<Turn("user", t)>>)
        /\ sessions[s].token_count = 2 * MaxUsage

\* C27: a commit that fails as stale belongs to a transaction that called
\* update_session on a loaded session, and it leaves that session's history,
\* last_active, token_count and version, and every other stored row, as they
\* were: neither the object's changes nor the token statements are applied.
C27_FailedWriteAppliesNothing ==
    (Stepped => (\A t \in Txs :
          (prev.tx[t].open /\ ~tx[t].open /\ tx[t].result = "stale")
          => LET id == prev.tx[t].fin.obj.session_id
             IN /\ prev.tx[t].fin.stmts # <<>>
                /\ id \in DOMAIN prev.sessions
                /\ sessions[id].history_json = prev.sessions[id].history_json
                /\ sessions[id].last_active = prev.sessions[id].last_active
                /\ sessions[id].token_count = prev.sessions[id].token_count
                /\ sessions[id].version = prev.sessions[id].version
                /\ sessions = prev.sessions
                /\ users = prev.users))

\* a write failed after another writer's turn with no tokens was committed
C27_Witness ==
    \E t \in Txs, u \in Txs, s \in DOMAIN sessions :
        /\ u # t
        /\ tx[t].result = "stale"
        /\ sessions[s].version = 2
        /\ sessions[s].token_count = 0
        /\ sessions[s].history_json = JsonDumps(<<Turn("user", u)>>)

\* C29: when a transaction that loaded a session and called update_session
\* once, without reset, with usage n ends its commit after the stored version
\* has moved on, the stored token_count T is left at T or at T + n.
C29_StaleIncrementKeepsOthers ==
    (Stepped => (\A t \in Txs :
          LET fin == prev.tx[t].fin
              id == fin.obj.session_id
          IN (/\ prev.tx[t].open
              /\ ~tx[t].open
              /\ tx[t].result \in {"committed", "stale"}
              /\ ~fin.created
              /\ Len(fin.stmts) = 1
              /\ fin.stmts[1].op = "add"
              /\ fin.base.version # prev.sessions[id].version)
             => sessions[id].token_count
                  \in {prev.sessions[id].token_count,
                       prev.sessions[id].token_count + fin.stmts[1].n}))

\* a write failed after another writer's tokens were committed
C29_Witness ==
    \E t \in Txs, u \in Txs, s \in DOMAIN sessions :
        /\ u # t
        /\ tx[t].result = "stale"
        /\ tx[u].result = "committed"
        /\ sessions[s].version = 2
        /\ sessions[s].token_count = MaxUsage

\* C23: generate_content ends with the validation error, the collaborator not
\* invoked, exactly when the prompt is longer than 1000 characters; a prompt
\* of 1000 characters or fewer goes on to the collaborator, which is invoked
\* once with an empty history; and no step of generate_content changes a
\* stored session or user.
C23_GenerateContent ==
    /\ (Stepped => (\A p \in Procs :
            (prev.pc[p] = "gen" /\ StepOf(p))
            => IF prev.call[p].prompt > MaxPromptLength
               THEN /\ pc[p] = "done"
                    /\ call[p].result = "validation"
                    /\ call[p].llm = 0
               ELSE /\ pc[p] = "genllm"
                    /\ call[p].history = <<>>
                    /\ call[p].llm = 0))
    /\ (\A p \in Procs :
            pc[p] = "genllm"
            => (call[p].prompt <= MaxPromptLength /\ call[p].history = <<>>))
    /\ (Stepped => (\A p \in Procs :
            (prev.pc[p] = "genllm" /\ StepOf(p))
            => (/\ pc[p] = "done"
                /\ call[p].result \in {"ok", "error"}
                /\ call[p].llm = 1)))
    /\ (\A p \in Procs :
            pc[p] = "done"
            => /\ call[p].result = "validation"
                  <=> call[p].prompt > MaxPromptLength
               /\ call[p].llm = IF call[p].result = "validation" THEN 0 ELSE 1)
    /\ (Stepped => (sessions = prev.sessions /\ users = prev.users))

\* the longest accepted prompt was answered, a longer one turned away
C23_Witness ==
    \E p, q \in Procs :
        /\ pc[p] = "done" /\ call[p].result = "ok"
        /\ call[p].prompt = MaxPromptLength /\ call[p].llm = 1
        /\ pc[q] = "done" /\ call[q].result = "validation"
        /\ call[q].prompt = MaxPromptLength + 1 /\ call[q].llm = 0
        /\ sessions # <<>>

\* an undecodable history is stored in session s
Undecodable(S, s) == s \in DOMAIN S /\ ~S[s].history_json.valid

\* C24: an attempt whose lookup resolves an active session with an
\* undecodable stored history does not end there: it goes on to the
\* collaborator with an empty history and that session resolved; and the
\* commit of an attempt that resolved such a session writes this turn alone,
\* as a decodable history, to the same session and returns its id.
C24_UndecodableHistoryDegrades ==
    /\ (Stepped => (\A p \in Procs :
            LET g == GetSession(prev.sessions, prev.call[p].sid, prev.call[p].user)
            IN (/\ prev.pc[p] = "load"
                /\ StepOf(p)
                /\ g.kind = "found"
                /\ \A i \in g.ids : /\ Undecodable(prev.sessions, i)
                                    /\ ~IsExpired(prev.sessions[i], prev.now))
               => (/\ pc[p] = "llm"
                   /\ call[p].initial \in g.ids
                   /\ call[p].history = <<>>
                   /\ call[p].result = prev.call[p].result)))
    /\ (\A p \in Procs :
            (pc[p] \in {"llm", "save", "commit"} /\ Undecodable(sessions, call[p].initial))
            => call[p].history = <<>>)
    /\ (Stepped => (\A p \in Procs :
            (Commits(p) /\ Undecodable(prev.sessions, prev.call[p].initial))
            => (/\ call[p].ret = prev.call[p].initial
                /\ DOMAIN sessions = DOMAIN prev.sessions
                /\ sessions[prev.call[p].initial].history_json
                     = JsonDumps(ThisTurn(p)))))

\* the first turn on the session replaced the undecodable history
C24_Witness ==
    \E p \in Procs :
        /\ pc[p] = "done"
        /\ call[p].result = "ok"
        /\ call[p].ret = 1
        /\ call[p].llm = 1
        /\ sessions[1].version = 2
        /\ sessions[1].history_json = JsonDumps(ThisTurn(p))

\* C31: an attempt ends with the quota error only when its lookup found a
\* session that is not expired and whose token_count is at or above the
\* limit; an attempt whose lookup finds no session, or only a session older
\* than the timeout, pinned or not and whatever its token_count, goes on to
\* the collaborator.
C31_QuotaOnlyForActiveSessions ==
    (Stepped => (\A p \in Procs :
          LET g == GetSession(prev.sessions, prev.call[p].sid, prev.call[p].user)
              old == {i \in DOMAIN prev.sessions :
                        prev.now - prev.sessions[i].last_active > TIMEOUT_SECONDS}
          IN (prev.pc[p] = "load" /\ StepOf(p))
             => /\ call[p].result = "quota"
                   => /\ g.kind = "found"
                      /\ \E i \in g.ids \ old :
                            prev.sessions[i].token_count >= MAX_TOKENS_PER_CHAT_SESSION
                /\ (g.kind = "none" \/ (g.kind = "found" /\ g.ids \subseteq old))
                   => (pc[p] = "llm" /\ call[p].result = prev.call[p].result)
                /\ (prev.call[p].sid = NoSession
                    /\ \A i \in DOMAIN prev.sessions :
                          prev.sessions[i].user_name = prev.call[p].user => i \in old)
                   => pc[p] = "llm"))

\* one call pinned an expired session at the limit, another call of its
\* owner pinned nothing, and both went on to the collaborator
C31_Witness ==
    \E p, q \in Procs, s \in DOMAIN sessions :
        /\ now - sessions[s].last_active > TIMEOUT_SECONDS
        /\ sessions[s].token_count >= MAX_TOKENS_PER_CHAT_SESSION
        /\ pc[p] = "llm" /\ call[p].sid = s /\ call[p].data.reset
        /\ pc[q] = "llm" /\ call[q].sid = NoSession
        /\ call[q].user = sessions[s].user_name
        /\ call[q].user # EmptyName
        /\ call[q].initial = NoSession

\* C32: an attempt whose lookup finds a session of age at most
\* TIMEOUT_SECONDS, the age of exactly TIMEOUT_SECONDS included, treats it as
\* active: unless the quota error ends the call, it goes on with that session
\* resolved, no reset scheduled and the stored history loaded; a session of
\* any greater age is reset when pinned and dropped when not; and the commit
\* of an attempt without a scheduled reset adds the usage to the stored count.
C32_ExpiredStrictlyAfterTimeout ==
    /\ (Stepped => (\A p \in Procs :
            LET g == GetSession(prev.sessions, prev.call[p].sid, prev.call[p].user)
                c == call[p]
            IN (prev.pc[p] = "load" /\ StepOf(p) /\ g.kind = "found")
               => \A i \in g.ids :
                    IF prev.now - prev.sessions[i].last_active <= TIMEOUT_SECONDS
                    THEN \/ pc[p] = "done" /\ c.result = "quota"
                         \/ /\ pc[p] = "llm"
                            /\ c.initial \in g.ids
                            /\ c.data.some /\ ~c.data.reset
                            /\ c.data.token_count = prev.sessions[c.initial].token_count
                            /\ c.history = LoadHistory(prev.sessions[c.initial])
                    ELSE /\ pc[p] = "llm"
                         /\ c.history = <<>>
                         /\ IF prev.call[p].sid = NoSession
                            THEN c.initial = NoSession /\ ~c.data.some
                            ELSE c.initial = i /\ c.data.reset))
    /\ (Stepped => (\A p \in Procs :
            (Commits(p) /\ prev.call[p].data.some /\ ~prev.call[p].data.reset)
            => sessions[prev.call[p].data.session_id].token_count
                 = prev.sessions[prev.call[p].data.session_id].token_count
                   + prev.call[p].usage))

\* a session aged exactly the timeout was resolved as active with its history
C32_Witness ==
    \E p \in Procs :
        /\ pc[p] = "llm"
        /\ call[p].initial \in DOMAIN sessions
        /\ now - sessions[call[p].initial].last_active = TIMEOUT_SECONDS
        /\ ~call[p].data.reset
        /\ call[p].history # <<>>

C34_WritesOnlyOwnSessions ==
    /\ (Stepped => (\A s \in DOMAIN prev.sessions :
            s \in DOMAIN sessions
            /\ sessions[s].user_name = prev.sessions[s].user_name))
    /\ (Stepped => (\A p \in Procs :
            Commits(p)
            => \A s \in DOMAIN sessions :
                  (s \notin DOMAIN prev.sessions \/ sessions[s] # prev.sessions[s])
                  => sessions[s].user_name = prev.call[p].user))

\* C35: in every state of the store the owner of each session is a stored
\* user; a conflicting attempt, retried or given up, leaves users and
\* sessions as they were; and a user, once stored, stays stored.
C35_SessionOwnersExist ==
    /\ (\A s \in DOMAIN sessions : sessions[s].user_name \in users)
    /\ (Stepped => (\A p \in Procs :
            (prev.pc[p] = "commit" /\ StepOf(p) /\ ~Commits(p))
            => (users = prev.users /\ sessions = prev.sessions)))
    /\ (Stepped => (prev.users \subseteq users))

\* two first calls of one user raced: one created the user and the session,
\* the other lost on the user row, retried and wrote the same session
C35_Witness ==
    \E p, q \in Procs :
        /\ calls = 2
        /\ pc[p] = "done" /\ call[p].result = "ok" /\ call[p].llm = 1
        /\ pc[q] = "done" /\ call[q].result = "ok" /\ call[q].llm = 2
        /\ call[p].user = call[q].user
        /\ users = {call[p].user}
        /\ DOMAIN sessions = {1}
        /\ sessions[1].user_name = call[p].user
        /\ sessions[1].version = 3

\* the sessions a step inserts or changes
Written == {s \in DOMAIN sessions :
              s \notin DOMAIN prev.sessions \/ sessions[s] # prev.sessions[s]}

\* C36: a chat call commits at most once: while it runs it has committed
\* nothing, when it has ended it has committed once if it returned and not at
\* all if it raised; the committing step writes exactly one session, whose
\* history becomes the history the attempt loaded plus this one turn; and no
\* other step of a call, a failed attempt's included, changes the store.
C36_AtMostOneCommitPerCall ==
    /\ (\A p \in Procs :
            /\ pc[p] \in Running => call[p].wrote = 0
            /\ pc[p] = "done"
               => call[p].wrote = IF call[p].result = "ok" THEN 1 ELSE 0)
    /\ (Stepped => (\A p \in Procs :
            Commits(p)
            => /\ Written = {call[p].ret}
               /\ sessions[call[p].ret].history_json
                    = JsonDumps(prev.call[p].history \o ThisTurn(p))))
    /\ (Stepped => (\A p \in Procs :
            (StepOf(p) /\ ~Commits(p))
            => (sessions = prev.sessions /\ users = prev.users)))

\* one call gave up after its last attempt, the other returned
C36_Witness ==
    \E p, q \in Procs :
        /\ pc[p] = "done" /\ call[p].result = "conflict"
        /\ call[p].wrote = 0 /\ call[p].llm = MaxAttempts
        /\ pc[q] = "done" /\ call[q].result = "ok" /\ call[q].wrote = 1

C38_TokenCountIsSumOfUsages ==
    /\ (\A s \in DOMAIN sessions : sessions[s].token_count >= 0)
    /\ (Stepped => (\A p \in Procs :
            Commits(p)
            => LET id == call[p].ret
               IN sessions[id].token_count
                    = IF id \notin DOMAIN prev.sessions \/ prev.call[p].data.reset
                      THEN prev.call[p].usage
                      ELSE prev.sessions[id].token_count + prev.call[p].usage))
    /\ (Stepped => (\A s \in DOMAIN prev.sessions :
            sessions[s].token_count # prev.sessions[s].token_count
            => \E p \in Procs : Commits(p) /\ call[p].ret = s))

\* two calls that ran side by side both added their usage to one session
C38_Witness ==
    \E p, q \in Procs :
        /\ p # q
        /\ pc[p] = "done" /\ call[p].result = "ok" /\ call[p].llm = 1
        /\ pc[q] = "done" /\ call[q].result = "ok" /\ call[q].llm = 1
        /\ call[p].ret = call[q].ret
        /\ calls = 3
        /\ sessions[call[p].ret].token_count = 2 * MaxUsage

\* C39: a process_chat_turn invokes send_message at most once for the prompt
\* and MAX_LOOPS times after it; it begins at most MAX_LOOPS iterations and
\* then returns; and a tool that raises leads to the send of its error, after
\* whose answer the loop goes on.
C39_BoundedToolLoop ==
    /\ (\A p \in Procs :
            /\ call[p].sends <= MAX_LOOPS + 1
            /\ call[p].loops <= MAX_LOOPS)
    /\ (Stepped => (\A p \in Procs :
            (prev.pc[p] = "tool" /\ pc[p] # "tool")
            => pc[p] \in {"send_result", "send_error"}))
    /\ (Stepped => (\A p \in Procs :
            (prev.pc[p] = "send_error" /\ pc[p] = "loop")
            => call[p].result = "none"))
    /\ (Stepped => (\A p \in Procs :
            (prev.pc[p] = "loop" /\ pc[p] # "loop" /\ prev.call[p].loops = MAX_LOOPS)
            => (pc[p] = "done" /\ call[p].result = "returned")))

====
